---- MODULE Spec2Model ----
(***************************************************************************)
(* A model of tools/html_to_md.py: the Cleaner and the body extraction of  *)
(* convert_html over a document tree, the link override convert_a, the     *)
(* Post-processor of convert_html over character sequences, and the        *)
(* control flow of the CLI entry point main.                               *)
(*                                                                         *)
(* A Python str is a sequence of one-character strings.                    *)
(***************************************************************************)
EXTENDS Integers, Sequences, FiniteSets

VARIABLES
    doc,        \* convert_html: the document BeautifulSoup parsed (never changes)
    alive,      \* convert_html: the nodes of doc still attached to `soup`
    html_str,   \* convert_html: the nodes serialised into the local `html_str`
    cpc,        \* convert_html: position in the cleaning block
    rendered,   \* convert_html: the string LoopMarkdownConverter.convert returned
    markdown,   \* convert_html: the local `markdown` as the post-processing rewrites it
    ppc,        \* convert_html: position in the post-processing block
    el,         \* convert_a: the attribute list of the anchor
    text,       \* convert_a: the rendered inner content of the anchor
    result,     \* convert_a: the string returned
    apc,        \* convert_a: called or returned
    html_content, \* main: the text read from the input file
    stderr,     \* main: the kinds of the lines printed to sys.stderr
    out_file,   \* main: the output file, [written, content]
    failure,    \* main: what failed in this run, as the environment decided
    ret,        \* main: how the call ended
    mpc         \* main: position in main

cleanVars == <<doc, alive, html_str, cpc>>
postVars == <<rendered, markdown, ppc>>
linkVars == <<el, text, result, apc>>
mainVars == <<html_content, stderr, out_file, failure, ret, mpc>>

vars == <<doc, alive, html_str, cpc, rendered, markdown, ppc,
          el, text, result, apc, html_content, stderr, out_file, failure, ret, mpc>>

-----------------------------------------------------------------------------
(* Characters and bounded strings *)

NL == "\n"
SP == " "
BS == "\\"

\* The characters the bounded strings are drawn from: a letter, a space, a
\* newline and the backslash of a hard line break.  "\n" is the only line
\* boundary among them and " " and "\n" the only whitespace.
Chars == {"a", SP, NL, BS}

MaxLen == 6

StringsUpTo(alphabet, n) == UNION {[1..k -> alphabet] : k \in 0..n}

\* str.isspace() on the characters of Chars
IsSpace(c) == c \in {SP, NL}

-----------------------------------------------------------------------------
(* Python string methods used by the post-processing *)

RECURSIVE LeadingNewlines(_)
LeadingNewlines(s) ==
    IF s # <<>> /\ Head(s) = NL THEN 1 + LeadingNewlines(Tail(s)) ELSE 0

\* the {3,} of the pattern \n{3,}
MinRun == 3

\* re.sub(r"\n{3,}", "\n\n", s): every maximal run of at least MinRun
\* newlines becomes two newlines; shorter runs are copied.
RECURSIVE CollapseNewlines(_)
CollapseNewlines(s) ==
    IF s = <<>> THEN <<>>
    ELSE IF Head(s) = NL
         THEN LET k == LeadingNewlines(s)
              IN  (IF k >= MinRun THEN <<NL, NL>> ELSE SubSeq(s, 1, k))
                  \o CollapseNewlines(SubSeq(s, k + 1, Len(s)))
         ELSE <<Head(s)>> \o CollapseNewlines(Tail(s))

\* index of the first newline of s, 0 when there is none
FirstNL(s) ==
    IF \E i \in 1..Len(s) : s[i] = NL
    THEN CHOOSE i \in 1..Len(s) : s[i] = NL /\ \A j \in 1..(i - 1) : s[j] # NL
    ELSE 0

\* str.splitlines(): the lines without their terminators; a final terminator
\* opens no further line, and "" has no line.
RECURSIVE splitlines(_)
splitlines(s) ==
    IF s = <<>> THEN <<>>
    ELSE LET i == FirstNL(s)
         IN  IF i = 0 THEN <<s>>
             ELSE <<SubSeq(s, 1, i - 1)>> \o splitlines(SubSeq(s, i + 1, Len(s)))

\* str.rstrip(): drop trailing whitespace
RECURSIVE rstrip(_)
rstrip(s) ==
    IF s # <<>> /\ IsSpace(s[Len(s)]) THEN rstrip(SubSeq(s, 1, Len(s) - 1)) ELSE s

\* leading whitespace dropped
RECURSIVE lstrip(_)
lstrip(s) ==
    IF s # <<>> /\ IsSpace(Head(s)) THEN lstrip(Tail(s)) ELSE s

\* str.strip(): drop leading and trailing whitespace
strip(s) == lstrip(rstrip(s))

\* "\n".join(lines)
RECURSIVE join(_)
join(lines) ==
    IF lines = <<>> THEN <<>>
    ELSE IF Len(lines) = 1 THEN lines[1]
    ELSE lines[1] \o <<NL>> \o join(Tail(lines))

\* [line.rstrip() for line in markdown.splitlines()] joined by "\n"
StripLines(s) ==
    LET lines == splitlines(s)
    IN  join([i \in 1..Len(lines) |-> rstrip(lines[i])])

\* markdown.strip() + "\n"
EndWithNewline(s) == strip(s) \o <<NL>>

\* the whole post-processing block of convert_html
PostProcess(s) == EndWithNewline(StripLines(CollapseNewlines(s)))

-----------------------------------------------------------------------------
(* The document tree *)

\* A document is [n, parent, node]: nodes 1..n numbered in document order
\* (the order of find_all and find), parent[i] = 0 for a child of the
\* BeautifulSoup object itself, node[i] = [label, attrs] where label is a tag
\* name, "#text" or "#comment", and attrs the attribute list of an element.

MaxNodes == 3

StyleHidden == <<"d","i","s","p","l","a","y",":","n","o","n","e">>
StyleHiddenUpper == <<"D","I","S","P","L","A","Y"," ",":"," ","N","o","n","e">>
StyleBlock == <<"d","i","s","p","l","a","y",":","b","l","o","c","k">>

StyleAttr(v) == << <<"style", v>> >>
NoAttrs == <<>>

TextLabels == {"#text", "#comment"}
\* void elements of the parser: they never get children
VoidLabels == {"meta", "link"}

\* The nodes documents are drawn from.  "iframe" stands for the four tags of
\* the first pass (the code treats them alike, and an iframe may hold any
\* children, a script only text); "div" for any other element.  A style
\* attribute is drawn for div (one value that the pattern matches only
\* through re.I and \s*, one that it does not match) and for body.
NodeKinds ==
    {[label |-> t, attrs |-> NoAttrs] :
        t \in {"iframe", "meta", "link", "body", "div", "#text", "#comment"}}
    \cup {[label |-> "div", attrs |-> StyleAttr(v)] : v \in {StyleHiddenUpper, StyleBlock}}
    \cup {[label |-> "body", attrs |-> StyleAttr(StyleHidden)]}

RECURSIVE IsAncOrSelf(_, _, _)
\* a is d or an ancestor of d (0 is the BeautifulSoup object)
IsAncOrSelf(par, a, d) ==
    IF d = a THEN TRUE
    ELSE IF d = 0 THEN FALSE
    ELSE IsAncOrSelf(par, a, par[d])

\* parent maps of k nodes numbered in document order
ParentMaps(k) ==
    {p \in [1..k -> 0..(k - 1)] :
        \A i \in 1..k :
            /\ p[i] < i
            /\ i > 1 => IsAncOrSelf(p, p[i], i - 1)}

\* what the parser builds: strings and void elements are leaves
WellFormed(d) ==
    \A i \in 1..d.n :
        d.parent[i] # 0 => d.node[d.parent[i]].label \notin TextLabels \cup VoidLabels

\* BeautifulSoup(html_content, "html.parser") over the bounded inputs
Docs ==
    UNION {
        {d \in [n : {k}, parent : ParentMaps(k), node : [1..k -> NodeKinds]] :
            WellFormed(d)} : k \in 0..MaxNodes}

EmptyDoc == [n |-> 0, parent |-> <<>>, node |-> <<>>]

AllNodes(d) == 1..d.n

\* n and its descendants
Subtree(d, n) == {m \in AllNodes(d) : IsAncOrSelf(d.parent, n, m)}

IsElement(d, n) == d.node[n].label \notin TextLabels

\* el.get(name, default)
Get(attrs, name, default) ==
    IF \E i \in 1..Len(attrs) : attrs[i][1] = name
    THEN attrs[CHOOSE i \in 1..Len(attrs) : attrs[i][1] = name][2]
    ELSE default

HasAttr(attrs, name) == \E i \in 1..Len(attrs) : attrs[i][1] = name

-----------------------------------------------------------------------------
(* re.compile(r"display\s*:\s*none", re.I).search *)

Lower(c) ==
    CASE c = "D" -> "d" [] c = "I" -> "i" [] c = "S" -> "s" [] c = "P" -> "p"
      [] c = "L" -> "l" [] c = "A" -> "a" [] c = "Y" -> "y" [] c = "N" -> "n"
      [] c = "O" -> "o" [] c = "E" -> "e" [] OTHER -> c

\* the literal w, case-insensitively, at position i of s
LiteralAt(s, i, w) ==
    /\ i + Len(w) - 1 <= Len(s)
    /\ \A k \in 1..Len(w) : Lower(s[i + k - 1]) = w[k]

RECURSIVE SkipSpaces(_, _)
\* \s* from position i: the position after the spaces
SkipSpaces(s, i) ==
    IF i <= Len(s) /\ s[i] = " " THEN SkipSpaces(s, i + 1) ELSE i

DisplayNoneAt(s, i) ==
    /\ LiteralAt(s, i, <<"d","i","s","p","l","a","y">>)
    /\ LET j == SkipSpaces(s, i + Len(<<"d","i","s","p","l","a","y">>))
       IN  /\ LiteralAt(s, j, <<":">>)
           /\ LiteralAt(s, SkipSpaces(s, j + 1), <<"n","o","n","e">>)

\* the pattern read as the plain, case-sensitive literal "display:none"
DisplayNoneLiteral(s) ==
    \E i \in 1..Len(s) :
        /\ i + Len(StyleHidden) - 1 <= Len(s)
        /\ \A k \in 1..Len(StyleHidden) : s[i + k - 1] = StyleHidden[k]

DisplayNone(s) == \E i \in 1..Len(s) : DisplayNoneAt(s, i)

-----------------------------------------------------------------------------
(* The Cleaner: convert_html, "Strip unwanted elements" *)

StripTags == {"script", "style", "noscript", "iframe"}

\* the passes in the order of the code
Rules == <<"strip", "comments", "hidden", "meta", "link">>

\* what each find_all selects
Matches(rule, d, n) ==
    CASE rule = "strip"    -> d.node[n].label \in StripTags
      [] rule = "comments" -> d.node[n].label = "#comment"
      [] rule = "hidden"   -> /\ IsElement(d, n)
                              /\ HasAttr(d.node[n].attrs, "style")
                              /\ DisplayNone(Get(d.node[n].attrs, "style", <<>>))
      [] rule = "meta"     -> d.node[n].label = "meta"
      [] rule = "link"     -> d.node[n].label = "link"

\* soup.find_all(...): the matching nodes of the tree, in document order
find_all(rule, d, live) ==
    SelectSeq([i \in 1..d.n |-> i], LAMBDA n : n \in live /\ Matches(rule, d, n))

\* tag.decompose() / comment.extract(): the node leaves the tree with
\* everything under it
decompose(d, live, n) == live \ Subtree(d, n)

\* a loop over a tree that is walked while it is modified: it stops after the
\* first removal
RemoveFirstOnly(d, live, list) ==
    IF list = <<>> THEN live ELSE decompose(d, live, Head(list))

RECURSIVE RemoveEach(_, _, _)
\* for tag in <list>: tag.decompose()
RemoveEach(d, live, list) ==
    IF list = <<>> THEN live
    ELSE RemoveEach(d, decompose(d, live, Head(list)), Tail(list))

\* one for-loop of the Cleaner
Pass(rule, d, live) == RemoveEach(d, live, find_all(rule, d, live))

\* soup.find("body"): the first body of the tree, 0 for None
FindBody(d, live) ==
    LET bodies == {n \in live : d.node[n].label = "body"}
    IN  IF bodies = {} THEN 0
        ELSE CHOOSE b \in bodies : \A c \in bodies : b <= c

\* truth taken from len(body.contents)
TruthyByLen(d, live, b) == b # 0 /\ \E n \in live : d.parent[n] = b

\* `if body:` (a Tag is true whatever it contains)
Truthy(d, live, b) == b # 0

\* str(body) or str(soup): the nodes serialised
Serialise(d, live) ==
    LET body == FindBody(d, live)
    IN  IF Truthy(d, live, body) THEN Subtree(d, body) \cap live ELSE live

CleanIdle ==
    /\ doc = EmptyDoc
    /\ alive = {}
    /\ html_str = {}
    /\ cpc = "off"

PostIdle ==
    /\ rendered = <<>>
    /\ markdown = <<>>
    /\ ppc = "off"

LinkIdle ==
    /\ el = <<>>
    /\ text = <<>>
    /\ result = <<>>
    /\ apc = "off"

MainIdle ==
    /\ html_content = <<>>
    /\ stderr = <<>>
    /\ out_file = [written |-> FALSE, content |-> <<>>]
    /\ failure = "none"
    /\ ret = "running"
    /\ mpc = "off"

CleanInit ==
    /\ doc \in Docs
    /\ alive = AllNodes(doc)
    /\ html_str = {}
    /\ cpc = "strip"
    /\ PostIdle
    /\ LinkIdle
    /\ MainIdle

CleanStep(from, rule, to) ==
    /\ cpc = from
    /\ alive' = Pass(rule, doc, alive)
    /\ cpc' = to
    /\ UNCHANGED <<doc, html_str, postVars, linkVars, mainVars>>

\* for tag in soup.find_all(["script", "style", "noscript", "iframe"])
CleanStrip == CleanStep("strip", "strip", "comments")

\* for comment in soup.find_all(string=...Comment)
CleanComments == CleanStep("comments", "comments", "hidden")

\* for tag in soup.find_all(attrs={"style": ...})
CleanHidden == CleanStep("hidden", "hidden", "meta")

\* for tag in soup.find_all("meta")
CleanMeta == CleanStep("meta", "meta", "link")

\* for tag in soup.find_all("link")
CleanLink == CleanStep("link", "link", "body")

\* body = soup.find("body"); html_str = str(body) or str(soup)
ExtractBody ==
    /\ cpc = "body"
    /\ html_str' = Serialise(doc, alive)
    /\ cpc' = "render"
    /\ UNCHANGED <<doc, alive, postVars, linkVars, mainVars>>

CleanNext ==
    \/ CleanStrip
    \/ CleanComments
    \/ CleanHidden
    \/ CleanMeta
    \/ CleanLink
    \/ ExtractBody

SpecClean == CleanInit /\ [][CleanNext]_vars

-----------------------------------------------------------------------------
(* Properties of the Cleaner and the body extraction *)

\* the style values that say display:none, up to case and spaces
HiddenStyles == {StyleHidden, StyleHiddenUpper}

\* a node whose subtree must not reach the Renderer
Unwanted(d, n) ==
    \/ d.node[n].label \in {"script", "style", "noscript", "iframe", "#comment"}
    \/ /\ d.node[n].label \notin TextLabels
       /\ \E i \in 1..Len(d.node[n].attrs) :
            d.node[n].attrs[i][1] = "style" /\ d.node[n].attrs[i][2] \in HiddenStyles

Noise(d, n) == Unwanted(d, n) \/ d.node[n].label \in {"meta", "link"}

Inside(d, P(_, _), n) == \E a \in AllNodes(d) : IsAncOrSelf(d.parent, a, n) /\ P(d, a)

\* C5: once the Cleaner has run, no node inside a script/style/noscript/iframe
\* subtree, no comment and no node inside a display:none subtree is left in
\* the tree, so none is in what is handed to the Renderer; every node outside
\* all removed subtrees is still in the tree.
C5_NoHiddenContent ==
    cpc \in {"body", "render"} =>
        /\ \A n \in alive : ~Inside(doc, Unwanted, n)
        /\ \A n \in html_str : n \in alive /\ ~Inside(doc, Unwanted, n)
        /\ \A n \in AllNodes(doc) : ~Inside(doc, Noise, n) => n \in alive

\* a text inside a div hidden by an upper-case, spaced style is gone while a
\* visible sibling text was handed to the Renderer
C5_Witness ==
    /\ cpc = "render"
    /\ \E h, t, v \in AllNodes(doc) :
        /\ doc.node[h] = [label |-> "div", attrs |-> StyleAttr(StyleHiddenUpper)]
        /\ doc.node[t].label = "#text" /\ doc.parent[t] = h /\ t \notin alive
        /\ doc.node[v].label = "#text" /\ doc.parent[v] = doc.parent[h]
        /\ v \in html_str

\* C6: after cleaning, when a body is still in the tree exactly the subtree of
\* a body is rendered; when none is, the whole cleaned tree is rendered.
C6_BodyOnly ==
    cpc = "render" =>
        LET bodies == {n \in alive : doc.node[n].label = "body"}
        IN  IF bodies # {}
            THEN \E b \in bodies :
                    html_str = {n \in alive : IsAncOrSelf(doc.parent, b, n)}
            ELSE html_str = alive

\* a childless body is in the cleaned tree and a text outside it was dropped
C6_Witness ==
    /\ cpc = "render"
    /\ \E b, t \in alive :
        /\ doc.node[b].label = "body"
        /\ \A n \in alive : doc.parent[n] # b
        /\ doc.node[t].label = "#text"
        /\ t \notin html_str
        /\ html_str = {b}

RuleSet == {Rules[i] : i \in 1..Len(Rules)}

\* from the pairs <<rules applied, tree>> of `level`, those after k more
\* passes, each of a rule not yet applied
RECURSIVE AfterPasses(_, _, _)
AfterPasses(d, level, k) ==
    IF k = 0 THEN level
    ELSE AfterPasses(d,
            UNION {{<<p[1] \cup {r}, Pass(r, d, p[2])>> : r \in RuleSet \ p[1]} :
                    p \in level},
            k - 1)

\* the trees that applying every rule once, in any of the orders, can leave
AnyOrderResults(d) ==
    {p[2] : p \in AfterPasses(d, {<<{}, AllNodes(d)>>}, Cardinality(RuleSet))}

\* C7: the tree the code's fixed order of passes leaves is the tree every
\* other order of the five passes leaves, and a tree with no matching node
\* is left as it was.
C7_RulesCommute ==
    cpc = "body" =>
        /\ AnyOrderResults(doc) = {alive}
        /\ (\A n \in AllNodes(doc) : ~Noise(doc, n)) => alive = AllNodes(doc)

\* matching nodes of three different rules nested in one another, all of
\* them removed
C7_Witness ==
    /\ cpc = "body"
    /\ \E h, f, c \in AllNodes(doc) :
        /\ Matches("hidden", doc, h)
        /\ Matches("strip", doc, f) /\ doc.parent[f] = h
        /\ Matches("comments", doc, c) /\ doc.parent[c] = f
    /\ alive = {}

-----------------------------------------------------------------------------
(* LoopMarkdownConverter.convert_a *)

MaxText == 2

\* [text](href "title")
LinkWithTitle(t, href, title) ==
    <<"[">> \o t \o <<"]", "(">> \o href \o <<" ", "\"">> \o title \o <<"\"", ")">>

\* [text](href)
LinkPlain(t, href) == <<"[">> \o t \o <<"]", "(">> \o href \o <<")">>

\* the first test written with `or`
convert_a_or(attrs, t) ==
    LET href == Get(attrs, "href", <<>>)
        title == Get(attrs, "title", <<>>)
    IN  IF strip(t) = <<>> \/ href = <<>> THEN <<>>
        ELSE IF href = <<>> THEN t
        ELSE IF title # <<>> THEN LinkWithTitle(t, href, title)
        ELSE LinkPlain(t, href)

\* convert_a(self, el, text, parent_tags)
convert_a(attrs, t) ==
    LET href == Get(attrs, "href", <<>>)
        title == Get(attrs, "title", <<>>)
    IN  IF strip(t) = <<>> /\ href = <<>> THEN <<>>
        ELSE IF href = <<>> THEN t
        ELSE IF title # <<>> THEN LinkWithTitle(t, href, title)
        ELSE LinkPlain(t, href)

\* the attribute lists of an anchor: href and title each absent, empty or set
AnchorAttrs ==
    {h \o t : h \in {<<>>, << <<"href", <<>> >> >>, << <<"href", <<"u">> >> >>},
              t \in {<<>>, << <<"title", <<>> >> >>, << <<"title", <<"t">> >> >>}}

LinkInit ==
    /\ el \in AnchorAttrs
    /\ text \in StringsUpTo({"h", SP, NL}, MaxText)
    /\ result = <<>>
    /\ apc = "called"
    /\ CleanIdle
    /\ PostIdle
    /\ MainIdle

ConvertA ==
    /\ apc = "called"
    /\ result' = convert_a(el, text)
    /\ apc' = "returned"
    /\ UNCHANGED <<el, text, cleanVars, postVars, mainVars>>

LinkNext == ConvertA

SpecLink == LinkInit /\ [][LinkNext]_vars

\* the value of attribute `name` of the anchor, "" when it is absent
AttrOrEmpty(attrs, name) ==
    LET at == {i \in 1..Len(attrs) : attrs[i][1] = name}
    IN  IF at = {} THEN <<>> ELSE attrs[CHOOSE i \in at : TRUE][2]

BlankText(t) == \A i \in 1..Len(t) : t[i] \in {SP, NL}

\* C4: the anchor renders by exactly one of four cases: nothing when the text
\* is blank and href empty; the text alone when href is empty; otherwise
\* [text](href "title") when title is non-empty and [text](href) when not.
C4_LinkCases ==
    apc = "returned" =>
        LET href == AttrOrEmpty(el, "href")
            title == AttrOrEmpty(el, "title")
            dropped == BlankText(text) /\ href = <<>>
            bare == ~dropped /\ href = <<>>
            titled == href # <<>> /\ title # <<>>
            plain == href # <<>> /\ title = <<>>
        IN  /\ Cardinality({c \in {<<1, dropped>>, <<2, bare>>, <<3, titled>>, <<4, plain>>} :
                                c[2]}) = 1
            /\ dropped => result = <<>>
            /\ bare => result = text
            /\ titled => result = LinkWithTitle(text, href, title)
            /\ plain => result = LinkPlain(text, href)

\* an anchor with a title and a text but no href came out as its text alone
C4_Witness ==
    /\ apc = "returned"
    /\ AttrOrEmpty(el, "href") = <<>>
    /\ AttrOrEmpty(el, "title") = <<"t">>
    /\ text = <<"h", SP>>
    /\ result = text

-----------------------------------------------------------------------------
(* The post-processing block of convert_html, one statement per step *)

PostInit ==
    /\ CleanIdle
    /\ LinkIdle
    /\ MainIdle
    /\ rendered \in StringsUpTo(Chars, MaxLen)
    /\ markdown = rendered
    /\ ppc = "collapse"

\* markdown = re.sub(r"\n{3,}", "\n\n", markdown)
PostCollapse ==
    /\ ppc = "collapse"
    /\ markdown' = CollapseNewlines(markdown)
    /\ ppc' = "striplines"
    /\ UNCHANGED <<rendered, cleanVars, linkVars, mainVars>>

\* lines = [...]; markdown = "\n".join(lines)
PostStripLines ==
    /\ ppc = "striplines"
    /\ markdown' = StripLines(markdown)
    /\ ppc' = "strip"
    /\ UNCHANGED <<rendered, cleanVars, linkVars, mainVars>>

\* markdown = markdown.strip() + "\n"; return markdown
PostStrip ==
    /\ ppc = "strip"
    /\ markdown' = EndWithNewline(markdown)
    /\ ppc' = "done"
    /\ UNCHANGED <<rendered, cleanVars, linkVars, mainVars>>

PostNext == PostCollapse \/ PostStripLines \/ PostStrip

SpecPost == PostInit /\ [][PostNext]_vars

-----------------------------------------------------------------------------
(* Properties of the post-processing *)

HasTripleNewline(s) ==
    \E i \in 1..(Len(s) - 2) : s[i] = NL /\ s[i + 1] = NL /\ s[i + 2] = NL

\* C1: the string convert_html returns never holds three or more newlines in
\* a row, whatever the Renderer produced.
C1_NoTripleNewline == ppc = "done" => ~HasTripleNewline(markdown)

\* C2: the post-processing is idempotent: applied to the string it returned
\* it returns that string again.
C2_Idempotent == ppc = "done" => PostProcess(markdown) = markdown

\* C3: when the rendering is empty (as it is for the empty input) the string
\* convert_html returns is empty, not a lone newline.
C3_EmptyStaysEmpty == (ppc = "done" /\ rendered = <<>>) => markdown = <<>>

\* a line with something other than spaces on it
NonBlank(line) == \E i \in 1..Len(line) : ~IsSpace(line[i])

\* the line without its trailing spaces, found from the last other character
WithoutTrailingSpaces(line) ==
    LET last == CHOOSE i \in 0..Len(line) :
                    /\ i > 0 => ~IsSpace(line[i])
                    /\ \A j \in (i + 1)..Len(line) : IsSpace(line[j])
    IN  SubSeq(line, 1, last)

RECURSIVE NonBlankLines(_)
\* the non-blank lines of s in order, each without its trailing spaces
NonBlankLines(s) ==
    IF s = <<>> THEN <<>>
    ELSE LET nl == {i \in 1..Len(s) : s[i] = NL}
             e == IF nl = {} THEN Len(s) + 1
                  ELSE CHOOSE i \in nl : \A j \in nl : i <= j
             line == SubSeq(s, 1, e - 1)
             rest == SubSeq(s, e + 1, Len(s))
         IN  (IF NonBlank(line) THEN <<WithoutTrailingSpaces(line)>> ELSE <<>>)
             \o NonBlankLines(rest)

\* C8: every non-blank line of the rendering, the first included, is in the
\* returned string with its content and its leading indentation, only its
\* trailing spaces gone; nothing but blank lines is dropped.
C8_LinesKept == ppc = "done" => NonBlankLines(markdown) = NonBlankLines(rendered)

\* C9: every string convert_html returns ends with exactly one newline (it
\* ends with "\n" and not with "\n\n") and does not begin with a blank line.
C9_OneTrailingNewline ==
    ppc = "done" =>
        /\ markdown # <<>> /\ markdown[Len(markdown)] = NL
        /\ ~(Len(markdown) >= 2 /\ markdown[Len(markdown) - 1] = NL)
        /\ Head(markdown) # NL

-----------------------------------------------------------------------------
(* main *)

MaxHtml == 2
MaxRendered == 2

\* the file contents read: "<" stands for any character that is not whitespace
HtmlContents == StringsUpTo({"<", SP, NL}, MaxHtml)

\* what the Renderer can return inside the convert_html call of main
Renderings == StringsUpTo({"a", SP, NL}, MaxRendered)

NoFile == [written |-> FALSE, content |-> <<>>]

MainInit ==
    /\ mpc = "exists"
    /\ html_content = <<>>
    /\ stderr = <<>>
    /\ out_file = NoFile
    /\ failure = "none"
    /\ ret = "running"
    /\ CleanIdle
    /\ PostIdle
    /\ LinkIdle

\* print("ERROR: ...", file=sys.stderr); return 1
ReturnError(kind) ==
    /\ stderr' = Append(stderr, "ERROR")
    /\ failure' = kind
    /\ ret' = "return 1"
    /\ mpc' = "exit"

\* if not input_path.exists(): ERROR, return 1
MainExists ==
    /\ mpc = "exists"
    /\ \/ /\ ReturnError("missing")
          /\ UNCHANGED <<html_content, out_file>>
       \/ /\ mpc' = "read"
          /\ UNCHANGED <<html_content, stderr, out_file, failure, ret>>
    /\ UNCHANGED <<cleanVars, postVars, linkVars>>

\* html_content = input_path.read_text(...), except Exception: ERROR, return 1
MainRead ==
    /\ mpc = "read"
    /\ \/ /\ ReturnError("read")
          /\ UNCHANGED <<html_content, out_file>>
       \/ /\ html_content' \in HtmlContents
          /\ mpc' = "empty"
          /\ UNCHANGED <<stderr, out_file, failure, ret>>
    /\ UNCHANGED <<cleanVars, postVars, linkVars>>

\* if not html_content.strip(): WARNING, output_path.write_text(""), return 0.
\* The write is outside any try: when it raises, the exception leaves main.
MainEmpty ==
    /\ mpc = "empty"
    /\ \/ /\ strip(html_content) = <<>>
          /\ stderr' = Append(stderr, "WARNING")
          /\ \/ /\ out_file' = [written |-> TRUE, content |-> <<>>]
                /\ ret' = "return 0"
                /\ UNCHANGED failure
             \/ /\ failure' = "write"
                /\ ret' = "exception"
                /\ UNCHANGED out_file
          /\ mpc' = "exit"
       \/ /\ strip(html_content) # <<>>
          /\ mpc' = "convert"
          /\ UNCHANGED <<stderr, out_file, failure, ret>>
    /\ UNCHANGED <<html_content, cleanVars, postVars, linkVars>>

\* markdown = convert_html(html_content), except Exception: ERROR, return 1
MainConvert ==
    /\ mpc = "convert"
    /\ \/ /\ ReturnError("convert")
          /\ UNCHANGED <<out_file, rendered, markdown>>
       \/ /\ \E r \in Renderings :
                /\ rendered' = r
                /\ markdown' = PostProcess(r)
          /\ mpc' = "write"
          /\ UNCHANGED <<stderr, out_file, failure, ret>>
    /\ UNCHANGED <<html_content, cleanVars, ppc, linkVars>>

\* mkdir(...); output_path.write_text(markdown), except Exception: ERROR,
\* return 1; return 0
MainWrite ==
    /\ mpc = "write"
    /\ \/ /\ ReturnError("write")
          /\ UNCHANGED out_file
       \/ /\ out_file' = [written |-> TRUE, content |-> markdown]
          /\ ret' = "return 0"
          /\ mpc' = "exit"
          /\ UNCHANGED <<stderr, failure>>
    /\ UNCHANGED <<html_content, cleanVars, postVars, linkVars>>

MainNext == MainExists \/ MainRead \/ MainEmpty \/ MainConvert \/ MainWrite

SpecMain == MainInit /\ [][MainNext]_vars

\* C10: every failure (input missing or unreadable, conversion, write on
\* either path) ends main with an ERROR line on stderr and the return value 1;
\* main returns 0 only with the output file written; a read or conversion
\* failure leaves the output file unwritten.
C10_FailuresReported ==
    mpc = "exit" =>
        /\ failure # "none" =>
              /\ ret = "return 1"
              /\ \E i \in 1..Len(stderr) : stderr[i] = "ERROR"
        /\ ret = "return 0" => out_file.written /\ failure = "none"
        /\ failure \in {"missing", "read", "convert"} => ~out_file.written

====
